---- MODULE Spec2Model ----
(***************************************************************************)
(* Gebeta Tutors application bot (scripttt.py): the ConversationHandler    *)
(* state machine, the per-user application dict and the Google Sheets      *)
(* adapter, as a state machine over inbound Telegram updates.              *)
(***************************************************************************)
EXTENDS Integers, Sequences, FiniteSets, TLC

\* ------------------------------------------------------------------ bounds
\* Message dates are whole seconds 0..MaxTime.
MaxTime == 1

\* --------------------------------------------------------------- constants
\* scripttt.py:16  FORM_FILLED, NAME, POSITION, LOCATION, EXPERIENCE, GROUP_PROOF, END = range(7)
FORM_FILLED == 0
NAME == 1
POSITION == 2
LOCATION == 3
EXPERIENCE == 4
GROUP_PROOF == 5
END == 6
\* telegram.ext.ConversationHandler.END, the value cancel and
\* complete_application return; a conversation whose handler returns it is
\* removed, so -1 is also the state of a key that has no conversation.
ConversationHandler_END == -1

Users == {"u1"}
\* Chat ids are integers, as Telegram's are.
Chats == {1, 2}
\* ConversationHandler's key with its defaults per_chat = per_user = True.
Keys == Chats \X Users
\* Non-command message texts (filters.TEXT & ~filters.COMMAND passes them).
Texts == {"Jane Doe", "   "}
Buttons == {"yes_form", "no_form", "form_completed", "group_joined"}
Commands == {"start", "cancel"}
Fields == <<"full_name", "position", "location", "experience">>

ChatOf(k) == k[1]
UserOf(k) == k[2]

VARIABLES
    SHEET,       \* the global worksheet handle: "sheet1" or "None"
    conv,        \* ConversationHandler's state per key (ConversationHandler_END: none)
    user_data,   \* context.user_data per user: a dict, with key 'application' once started
    proof_msg,   \* per chat: date of the message with the group_joined button that the
                 \* chat's conversation sent and can still be clicked in it (NoMessage: none)
    now,         \* the clock, in seconds
    update,      \* the update processed last (of an update that no handler of the
                 \* conversation took, the kind and the key only)
    handler,     \* the handler that took it ("None": no handler, the update was dropped)
    out,         \* the messages the handler of the last update sent or edited
    call,        \* the append_row call the handler of the last update made, or NoCall
    fate,        \* history: how the key's latest session stands
    got,         \* history: the texts the key's session received, by field
    appended     \* history: append_row calls made by the key's session

vars == <<SHEET, conv, user_data, proof_msg, now, update, handler, out, call, fate, got, appended>>

EmptyDict == <<>>
NoCall == [made |-> FALSE]
NoMessage == 0 - 1
NoUpdate == [kind |-> "none"]

\* ------------------------------------------------------------- dict helpers
\* dict.get(key, default)
Get(data, key, default) == IF key \in DOMAIN data THEN data[key] ELSE default

\* d[key] = value
Put(d, key, value) == [x \in (DOMAIN d) \cup {key} |-> IF x = key THEN value ELSE d[x]]

HasApplication(u) == "application" \in DOMAIN user_data[u]

Application(u) == user_data[u]["application"]

\* context.user_data['application'][field] = text
SetField(u, field, text) ==
    [user_data EXCEPT ![u] = Put(@, "application", Put(Application(u), field, text))]

\* ------------------------------------------------------------ the messages
WelcomePrompt ==
    [text |-> "welcome_form_question", buttons |-> <<"yes_form", "no_form">>]
FormLinkPrompt ==
    [text |-> "form_link", buttons |-> <<"form_completed">>]
NamePrompt ==
    [text |-> "ask_full_name", buttons |-> <<>>]
PositionPrompt(name) ==
    [text |-> "thank_you_ask_position", name |-> name, buttons |-> <<>>]
LocationPrompt ==
    [text |-> "ask_location", buttons |-> <<>>]
ExperiencePrompt ==
    [text |-> "ask_experience", buttons |-> <<>>]
GroupPrompt ==
    [text |-> "group_link", buttons |-> <<"group_joined">>]
CompletionAck ==
    [text |-> "application_received", buttons |-> <<>>]
CancelAck ==
    [text |-> "application_cancelled", buttons |-> <<>>]
FlowNotice ==
    [text |-> "provide_required_information", buttons |-> <<>>]

\* --------------------------------------------------------------- dispatch
\* What is kept of an update that went to fallback_text or was dropped.
Dropped(upd) == [upd EXCEPT !.data = "-"]

TextUpdate(k, t) == [kind |-> "text", key |-> k, data |-> t]
CommandUpdate(k, c) == [kind |-> "command", key |-> k, data |-> c]
CallbackUpdate(k, b) == [kind |-> "callback", key |-> k, data |-> b]

IsText(upd) == upd.kind = "text"
IsCommand(upd, c) == upd.kind = "command" /\ upd.data = c
IsCallback(upd, pattern) == upd.kind = "callback" /\ upd.data \in pattern

\* The states table with GROUP_PROOF given a text handler too (the
\* MessageHandler of EXPERIENCE copied into it).
StateHandler_loose(state, upd) ==
    IF state = FORM_FILLED /\ IsCallback(upd, {"yes_form", "no_form", "form_completed"})
        THEN "form_check_callback"
    ELSE IF state = NAME /\ IsText(upd) THEN "get_name"
    ELSE IF state = POSITION /\ IsText(upd) THEN "get_position"
    ELSE IF state = LOCATION /\ IsText(upd) THEN "get_location"
    ELSE IF state \in {EXPERIENCE, GROUP_PROOF} /\ IsText(upd) THEN "get_experience"
    ELSE IF state = GROUP_PROOF /\ IsCallback(upd, {"group_joined"})
        THEN "complete_application"
    ELSE "None"

\* The handlers of one state of the ConversationHandler (states = {...}).
StateHandler(state, upd) ==
    IF state = FORM_FILLED /\ IsCallback(upd, {"yes_form", "no_form", "form_completed"})
        THEN "form_check_callback"
    ELSE IF state = NAME /\ IsText(upd) THEN "get_name"
    ELSE IF state = POSITION /\ IsText(upd) THEN "get_position"
    ELSE IF state = LOCATION /\ IsText(upd) THEN "get_location"
    ELSE IF state = EXPERIENCE /\ IsText(upd) THEN "get_experience"
    ELSE IF state = GROUP_PROOF /\ IsCallback(upd, {"group_joined"})
        THEN "complete_application"
    ELSE "None"

\* The ConversationHandler built with allow_reentry=True: /start is an entry
\* point in an open conversation too.
conv_handler_reentry(state, upd) ==
    IF IsCommand(upd, "start") THEN "start"
    ELSE IF state = ConversationHandler_END THEN "None"
    ELSE IF StateHandler(state, upd) # "None" THEN StateHandler(state, upd)
    ELSE IF IsCommand(upd, "cancel") THEN "cancel"
    ELSE "None"

\* ConversationHandler.check_update: the entry points when the key has no
\* conversation (allow_reentry is False), else the state's handlers, then the
\* fallbacks.
conv_handler(state, upd) ==
    IF state = ConversationHandler_END
        THEN (IF IsCommand(upd, "start") THEN "start" ELSE "None")
    ELSE IF StateHandler(state, upd) # "None" THEN StateHandler(state, upd)
    ELSE IF IsCommand(upd, "cancel") THEN "cancel"
    ELSE "None"

\* The application's handlers of group 0, in the order they were added: the
\* first that accepts the update handles it.
Dispatch(state, upd) ==
    IF conv_handler(state, upd) # "None" THEN conv_handler(state, upd)
    ELSE IF IsText(upd) THEN "fallback_text"
    ELSE "None"

\* ------------------------------------------------------------ Google Sheets
\* initialize_google_sheets: the handle on success, None on any exception.
initialize_google_sheets(connected) == IF connected THEN "sheet1" ELSE "None"

\* str(update.effective_message.date) with the date of the update's click.
Timestamp_click(msg_date, click_time) == ToString(click_time)

\* str(update.effective_message.date): of a callback query the effective
\* message is the message the button is on.
Timestamp(msg_date, click_time) == ToString(msg_date)

\* The row of store_application_data.
Row(timestamp, chat_id, data) ==
    << timestamp,
       ToString(chat_id),
       Get(data, "full_name", "N/A"),
       Get(data, "position", "N/A"),
       Get(data, "location", "N/A"),
       Get(data, "experience", "N/A") >>

\* store_application_data without `except Exception`: a failure of append_row
\* goes up to complete_application.
store_application_data_raises(sheet, append_ok) ==
    IF sheet = "None" THEN "inactive"
    ELSE IF append_ok THEN "saved"
    ELSE "raised"

\* store_application_data without its `if not SHEET` guard.
store_application_data_unguarded(sheet, append_ok) ==
    IF append_ok THEN "saved" ELSE "logged"

\* store_application_data with its guard inverted: `if SHEET: return`.
store_application_data_inverted(sheet, append_ok) ==
    IF sheet # "None" THEN "inactive"
    ELSE IF append_ok THEN "saved"
    ELSE "logged"

\* How store_application_data ends: "inactive" (no sheet: logged, returned),
\* "saved", or "logged" (append_row raised; the exception is caught and
\* logged). It never raises.
store_application_data(sheet, append_ok) ==
    IF sheet = "None" THEN "inactive"
    ELSE IF append_ok THEN "saved"
    ELSE "logged"

\* ------------------------------------------------------------------- Init
Init ==
    /\ SHEET \in {initialize_google_sheets(c) : c \in BOOLEAN}
    /\ conv = [k \in Keys |-> ConversationHandler_END]
    /\ user_data = [u \in Users |-> EmptyDict]
    /\ proof_msg = [c \in Chats |-> NoMessage]
    /\ now = 0
    /\ update = NoUpdate
    /\ handler = "None"
    /\ out = <<>>
    /\ call = NoCall
    /\ fate = [k \in Keys |-> "none"]
    /\ got = [k \in Keys |-> EmptyDict]
    /\ appended = [k \in Keys |-> 0]

\* --------------------------------------------------------------- handlers
\* start updating the user's dict in place: the fields of an earlier session stay.
start_application_update(old, chat_id) ==
    IF "application" \in DOMAIN old
        THEN Put(old["application"], "chat_id", chat_id)
        ELSE [chat_id |-> chat_id]

\* context.user_data['application'] = {'chat_id': chat_id}: the new dict takes
\* the place of whatever dict (old) the user had.
start_application(old, chat_id) == [chat_id |-> chat_id]

start(k) ==
    LET upd == CommandUpdate(k, "start") IN
    /\ Dispatch(conv[k], upd) = "start"
    /\ update' = upd
    /\ handler' = "start"
    /\ user_data' = [user_data EXCEPT ![UserOf(k)] =
                        Put(@, "application", start_application(@, ChatOf(k)))]
    /\ out' = <<WelcomePrompt>>
    /\ conv' = [conv EXCEPT ![k] = FORM_FILLED]
    /\ call' = NoCall
    /\ fate' = [fate EXCEPT ![k] = "active"]
    /\ got' = [got EXCEPT ![k] = EmptyDict]
    /\ appended' = [appended EXCEPT ![k] = 0]
    /\ UNCHANGED <<SHEET, proof_msg, now>>

\* form_check_callback testing `query.data != 'yes_form'`: form_completed is
\* treated as no_form.
FormCheckNext_only_yes(data) == IF data = "yes_form" THEN NAME ELSE FORM_FILLED

\* form_check_callback without its no_form branch.
FormCheckNext_always(data) == NAME

\* form_check_callback returning POSITION for NAME.
FormCheckNext_skip(data) == IF data = "no_form" THEN FORM_FILLED ELSE POSITION

\* The state form_check_callback returns.
FormCheckNext(data) == IF data = "no_form" THEN FORM_FILLED ELSE NAME

\* form_check_callback without `return FORM_FILLED`: after the link it goes on
\* to the name prompt.
FormCheckReply_fallthrough(data) ==
    IF data = "no_form" THEN <<FormLinkPrompt, NamePrompt>> ELSE <<NamePrompt>>

\* The messages form_check_callback edits the prompt into.
FormCheckReply(data) ==
    IF data = "no_form" THEN <<FormLinkPrompt>> ELSE <<NamePrompt>>

form_check_callback(k, b) ==
    LET upd == CallbackUpdate(k, b) IN
    /\ Dispatch(conv[k], upd) = "form_check_callback"
    /\ update' = upd
    /\ handler' = "form_check_callback"
    /\ out' = FormCheckReply(b)
    /\ conv' = [conv EXCEPT ![k] = FormCheckNext(b)]
    /\ call' = NoCall
    /\ UNCHANGED <<SHEET, user_data, proof_msg, now, fate, got, appended>>

\* A handler that stores the text of the message into one field, replies
\* and returns the next state. Without an 'application' dict the store
\* raises KeyError: the handler ends there, nothing is sent and the
\* conversation keeps its state.
StoreText(k, t, name, field, reply, next) ==
    LET upd == TextUpdate(k, t) IN
    /\ Dispatch(conv[k], upd) = name
    /\ update' = upd
    /\ handler' = name
    /\ IF HasApplication(UserOf(k))
          THEN /\ user_data' = SetField(UserOf(k), field, t)
               /\ out' = <<reply>>
               /\ conv' = [conv EXCEPT ![k] = next]
          ELSE /\ out' = <<>>
               /\ UNCHANGED <<user_data, conv>>
    /\ got' = [got EXCEPT ![k] = Put(@, field, t)]
    /\ call' = NoCall
    /\ UNCHANGED <<SHEET, now, fate, appended>>

\* The texts of white space only among Texts.
BlankTexts == {"   "}

IsBlank(t) == t \in BlankTexts

\* get_name with a check `if not name.strip()`: a blank name is asked for
\* again and the conversation stays at NAME.
get_name_strict(k, t) ==
    IF IsBlank(t)
        THEN /\ Dispatch(conv[k], TextUpdate(k, t)) = "get_name"
             /\ update' = TextUpdate(k, t)
             /\ handler' = "get_name"
             /\ out' = <<NamePrompt>>
             /\ call' = NoCall
             /\ UNCHANGED <<SHEET, conv, user_data, proof_msg, now, fate, got, appended>>
        ELSE /\ StoreText(k, t, "get_name", "full_name", PositionPrompt(t), POSITION)
             /\ UNCHANGED proof_msg

get_name(k, t) ==
    /\ StoreText(k, t, "get_name", "full_name", PositionPrompt(t), POSITION)
    /\ UNCHANGED proof_msg

\* get_position storing under 'full_name' (the line of get_name copied).
get_position_wrongfield(k, t) ==
    /\ StoreText(k, t, "get_position", "full_name", LocationPrompt, LOCATION)
    /\ UNCHANGED proof_msg

get_position(k, t) ==
    /\ StoreText(k, t, "get_position", "position", LocationPrompt, LOCATION)
    /\ UNCHANGED proof_msg

get_location(k, t) ==
    /\ StoreText(k, t, "get_location", "location", ExperiencePrompt, EXPERIENCE)
    /\ UNCHANGED proof_msg

get_experience(k, t) ==
    /\ StoreText(k, t, "get_experience", "experience", GroupPrompt, GROUP_PROOF)
    /\ proof_msg' = IF HasApplication(UserOf(k))
                       THEN [proof_msg EXCEPT ![ChatOf(k)] = now]
                       ELSE proof_msg

\* complete_application returning GROUP_PROOF: the conversation stays open.
CompleteReturn_stay == GROUP_PROOF

\* The state complete_application returns.
CompleteReturn == ConversationHandler_END

\* cancel returning FORM_FILLED: the conversation starts over instead of ending.
CancelReturn_restart == FORM_FILLED

\* The state cancel returns.
CancelReturn == ConversationHandler_END

\* The click is on the chat's latest message with the button (query.message);
\* append_ok is whether SHEET.append_row returns rather than raises. A call
\* that raises (user_data['application'] without the key, or the store)
\* ends the handler: nothing is edited and no state is returned.
complete_application(k, append_ok) ==
    LET upd == CallbackUpdate(k, "group_joined")
        msg_date == proof_msg[ChatOf(k)]
        how == IF HasApplication(UserOf(k))
                  THEN store_application_data(SHEET, append_ok)
                  ELSE "KeyError"
        called == how \in {"saved", "logged", "raised"}
        aborted == how \in {"KeyError", "raised"}
    IN
    /\ Dispatch(conv[k], upd) = "complete_application"
    /\ update' = upd
    /\ handler' = "complete_application"
    /\ call' = IF called
                  THEN [made |-> TRUE,
                        key |-> k,
                        row |-> Row(Timestamp(msg_date, now), ChatOf(k),
                                    Application(UserOf(k))),
                        ok |-> (how = "saved"),
                        click_time |-> now,
                        msg_date |-> msg_date,
                        session |-> got[k]]
                  ELSE NoCall
    /\ appended' = IF called
                      THEN [appended EXCEPT ![k] = IF @ < 2 THEN @ + 1 ELSE @]
                      ELSE appended
    /\ IF aborted
          THEN /\ out' = <<>>
               /\ UNCHANGED <<conv, fate, got, proof_msg>>
          ELSE /\ out' = <<CompletionAck>>
               /\ conv' = [conv EXCEPT ![k] = CompleteReturn]
               /\ fate' = [fate EXCEPT ![k] = "done"]
               /\ got' = [got EXCEPT ![k] = EmptyDict]
               /\ proof_msg' = [proof_msg EXCEPT ![ChatOf(k)] = NoMessage]
    /\ UNCHANGED <<SHEET, user_data, now>>

fallback_text(k, t) ==
    LET upd == TextUpdate(k, t) IN
    /\ Dispatch(conv[k], upd) = "fallback_text"
    /\ update' = Dropped(upd)
    /\ handler' = "fallback_text"
    /\ out' = <<FlowNotice>>
    /\ call' = NoCall
    /\ UNCHANGED <<SHEET, conv, user_data, proof_msg, now, fate, got, appended>>

\* cancel with `context.user_data.clear()`: the user's dict is dropped.
cancel_discard(k) ==
    LET upd == CommandUpdate(k, "cancel") IN
    /\ Dispatch(conv[k], upd) = "cancel"
    /\ update' = upd
    /\ handler' = "cancel"
    /\ out' = <<CancelAck>>
    /\ conv' = [conv EXCEPT ![k] = ConversationHandler_END]
    /\ call' = NoCall
    /\ fate' = [fate EXCEPT ![k] = "cancelled"]
    /\ got' = [got EXCEPT ![k] = EmptyDict]
    /\ proof_msg' = [proof_msg EXCEPT ![ChatOf(k)] = NoMessage]
    /\ user_data' = [user_data EXCEPT ![UserOf(k)] = EmptyDict]
    /\ UNCHANGED <<SHEET, now, appended>>

cancel(k) ==
    LET upd == CommandUpdate(k, "cancel") IN
    /\ Dispatch(conv[k], upd) = "cancel"
    /\ update' = upd
    /\ handler' = "cancel"
    /\ out' = <<CancelAck>>
    /\ conv' = [conv EXCEPT ![k] = CancelReturn]
    /\ call' = NoCall
    /\ fate' = [fate EXCEPT ![k] = "cancelled"]
    /\ got' = [got EXCEPT ![k] = EmptyDict]
    /\ proof_msg' = [proof_msg EXCEPT ![ChatOf(k)] = NoMessage]
    /\ UNCHANGED <<SHEET, user_data, now, appended>>

\* An update no handler accepts: the application drops it.
Unhandled(upd) ==
    /\ Dispatch(conv[upd.key], upd) = "None"
    /\ update' = Dropped(upd)
    /\ handler' = "None"
    /\ out' = <<>>
    /\ call' = NoCall
    /\ UNCHANGED <<SHEET, conv, user_data, proof_msg, now, fate, got, appended>>

\* A second passes.
Tick ==
    /\ now < MaxTime
    /\ now' = now + 1
    /\ UNCHANGED <<SHEET, conv, user_data, proof_msg, update, handler, out, call, fate, got, appended>>

Updates ==
    {TextUpdate(k, t) : k \in Keys, t \in Texts}
        \cup {CommandUpdate(k, c) : k \in Keys, c \in Commands}
        \cup {CallbackUpdate(k, b) : k \in Keys, b \in Buttons}

Next ==
    \/ \E k \in Keys : start(k)
    \/ \E k \in Keys, b \in Buttons : form_check_callback(k, b)
    \/ \E k \in Keys, t \in Texts : get_name(k, t)
    \/ \E k \in Keys, t \in Texts : get_position(k, t)
    \/ \E k \in Keys, t \in Texts : get_location(k, t)
    \/ \E k \in Keys, t \in Texts : get_experience(k, t)
    \/ \E k \in Keys, ok \in BOOLEAN : complete_application(k, ok)
    \/ \E k \in Keys, t \in Texts : fallback_text(k, t)
    \/ \E k \in Keys : cancel(k)
    \/ \E upd \in Updates : Unhandled(upd)
    \/ Tick

Spec == Init /\ [][Next]_vars

\* ------------------------------------------------------------------ stages
Active(k) == conv[k] # ConversationHandler_END

Stages == FORM_FILLED..GROUP_PROOF

NoStage == 0 - 1

\* The stage of a key's session: the conversation's state while it is open,
\* END (the DONE of the specification) once complete_application has closed
\* it, NoStage before the first start and after a cancellation.
StageOf(state, f) ==
    IF state # ConversationHandler_END THEN state
    ELSE IF f = "done" THEN END
    ELSE NoStage

ConversationHandlers ==
    {"start", "form_check_callback", "get_name", "get_position", "get_location",
     "get_experience", "complete_application", "cancel"}

\* ------------------------------------------------------------------ claims

\* C1: every step moves each session's stage one stage forward in the order
\* FORM_FILLED, NAME, POSITION, LOCATION, EXPERIENCE, GROUP_PROOF, DONE, or
\* leaves it, or ends the session by cancellation, or starts a session where
\* there is none (or a finished one) at FORM_FILLED; and the only update a
\* handler of the conversation takes without moving the stage is no_form at
\* FORM_FILLED.
C1_StageForward ==
    [][\A k \in Keys :
          LET r == StageOf(conv[k], fate[k])
              r2 == StageOf(conv'[k], fate'[k])
          IN  /\ \/ r2 = r
                 \/ r \in Stages /\ r2 = r + 1
                 \/ r \in Stages /\ r2 = NoStage /\ fate'[k] = "cancelled"
                 \/ r \notin Stages /\ r2 = FORM_FILLED
              /\ ( /\ now' = now
                   /\ handler' \in ConversationHandlers
                   /\ update'.key = k
                   /\ r2 = r )
                 => (r = FORM_FILLED /\ update'.data = "no_form")
      ]_vars

\* A session has gone through every stage and is DONE.
C1_Witness ==
    \E k \in Keys : handler = "complete_application" /\ update.key = k /\ fate[k] = "done"

\* C2 (as claimed): append_row has been called for a session if and only if
\* the session has reached DONE.
C2_PersistedIffDone ==
    \A k \in Keys : (appended[k] >= 1) <=> (fate[k] = "done")

\* C2 (amended): append_row has been called only for sessions that reached
\* DONE, never for a cancelled one, and when the sheet was opened at start-up
\* for every session that reached DONE.
C2_PersistedOnlyIfDone ==
    \A k \in Keys :
        /\ appended[k] >= 1 => fate[k] = "done"
        /\ fate[k] = "cancelled" => appended[k] = 0
        /\ (SHEET # "None" /\ fate[k] = "done") => appended[k] >= 1

\* A session was cancelled after its texts were collected, with the sheet open.
C2_Witness ==
    /\ SHEET # "None"
    /\ handler = "cancel"
    /\ fate[update.key] = "cancelled"
    /\ "experience" \in DOMAIN Application(UserOf(update.key))
    /\ \E k \in Keys : fate[k] = "done" /\ appended[k] = 1

\* C3: the row of every append_row call holds the four texts of the session;
\* none of its fields is the placeholder 'N/A'.
C3_RowComplete ==
    call.made =>
        /\ DOMAIN call.session = {"full_name", "position", "location", "experience"}
        /\ \A i \in 3..6 : call.row[i] # "N/A"

\* C4: a session calls append_row at most once, and exactly once when it
\* reaches DONE with the sheet open.
C4_AppendedOnce ==
    \A k \in Keys :
        /\ appended[k] <= 1
        /\ (SHEET # "None" /\ fate[k] = "done") => appended[k] = 1

\* A session is DONE with one append_row call, and a button click that came
\* after it was dropped.
C4_Witness ==
    /\ handler = "None"
    /\ update.kind = "callback"
    /\ fate[update.key] = "done"
    /\ appended[update.key] = 1

\* C5: the row is (timestamp, chat_id, full_name, position, location,
\* experience), with the chat of the session and the texts the session
\* received at NAME, POSITION, LOCATION and EXPERIENCE.
C5_RowMatchesSession ==
    call.made =>
        /\ Len(call.row) = 6
        /\ call.row[2] = ToString(ChatOf(call.key))
        /\ \A i \in 1..4 : call.row[i + 2] = Get(call.session, Fields[i], "N/A")

\* C6 (as claimed): the timestamp of the row is the time of the group_joined
\* click that caused the call.
C6_TimestampIsClickTime ==
    call.made => call.row[1] = ToString(call.click_time)

\* C6 (amended): the timestamp of the row is the date of the message the
\* clicked button is on, the prompt sent when the experience text was
\* handled, which is the time of the click or earlier.
C6_TimestampIsMessageDate ==
    call.made =>
        /\ call.row[1] = ToString(call.msg_date)
        /\ call.msg_date \in 0..call.click_time

\* A row was appended for a click that came after the second of its prompt.
C6_Witness ==
    call.made /\ call.msg_date < call.click_time

\* C7: a group_joined click whose append_row call fails still edits the
\* prompt into the completion acknowledgment and closes the conversation as
\* DONE; the call is made once, and nothing else of the conversations or of
\* the user's dict changes.
C7_FailureStillCompletes ==
    [][(call'.made /\ ~call'.ok /\ call' # call) =>
          LET k == call'.key IN
          /\ conv[k] = GROUP_PROOF
          /\ out' = <<CompletionAck>>
          /\ conv' = [conv EXCEPT ![k] = ConversationHandler_END]
          /\ fate' = [fate EXCEPT ![k] = "done"]
          /\ appended' = [appended EXCEPT ![k] = 1]
          /\ user_data' = user_data
          /\ SHEET' = SHEET
      ]_vars

\* An append_row call has failed and the completion acknowledgment is out.
C7_Witness ==
    call.made /\ ~call.ok /\ out = <<CompletionAck>> /\ fate[call.key] = "done"

\* C8: when the sheet could not be opened at start-up no append_row call is
\* ever made, and every group_joined click at GROUP_PROOF is still taken by
\* complete_application, which sends the completion acknowledgment and
\* closes the conversation as DONE.
C8_DegradedMode ==
    SHEET = "None" =>
        /\ call = NoCall
        /\ \A k \in Keys : appended[k] = 0
        /\ \A k \in Keys :
              conv[k] = GROUP_PROOF =>
                  Dispatch(conv[k], CallbackUpdate(k, "group_joined")) = "complete_application"
        /\ handler = "complete_application" =>
              /\ out = <<CompletionAck>>
              /\ conv[update.key] = ConversationHandler_END
              /\ fate[update.key] = "done"

\* Without a sheet a session has been completed.
C8_Witness ==
    /\ SHEET = "None"
    /\ handler = "complete_application"
    /\ out = <<CompletionAck>>
    /\ fate[update.key] = "done"

\* C9: /cancel is taken at every stage from FORM_FILLED to GROUP_PROOF; it
\* sends the cancellation acknowledgment alone, calls no append_row and
\* closes the conversation; a key without a conversation enters one by
\* /start only, and start gives the user a dict that holds the chat id alone.
C9_Cancel ==
    /\ \A k \in Keys :
          Active(k) => Dispatch(conv[k], CommandUpdate(k, "cancel")) = "cancel"
    /\ handler = "cancel" =>
          /\ out = <<CancelAck>>
          /\ call = NoCall
          /\ appended[update.key] = 0
          /\ conv[update.key] = ConversationHandler_END
          /\ fate[update.key] = "cancelled"
    /\ \A upd \in Updates :
          ~Active(upd.key) =>
              (conv_handler(conv[upd.key], upd) # "None" <=> IsCommand(upd, "start"))
    /\ handler = "start" =>
          /\ Application(UserOf(update.key)) = [chat_id |-> ChatOf(update.key)]
          /\ got[update.key] = EmptyDict

\* A session was cancelled after it had stored a name.
C9_Witness ==
    /\ handler = "cancel"
    /\ fate[update.key] = "cancelled"
    /\ ~Active(update.key)
    /\ "full_name" \in DOMAIN Application(UserOf(update.key))

\* C10: /start on a key without a conversation stores a dict with the chat
\* id alone, sets FORM_FILLED and sends the one prompt with the buttons
\* yes_form and no_form; at FORM_FILLED no_form sends the link with the one
\* button form_completed and stays, yes_form moves to NAME.
C10_StartAndFormCheck ==
    /\ \A k \in Keys :
          /\ ~Active(k) => Dispatch(conv[k], CommandUpdate(k, "start")) = "start"
          /\ conv[k] = FORM_FILLED =>
                \A b \in {"yes_form", "no_form"} :
                    Dispatch(conv[k], CallbackUpdate(k, b)) = "form_check_callback"
    /\ handler = "start" =>
          /\ DOMAIN Application(UserOf(update.key)) = {"chat_id"}
          /\ Application(UserOf(update.key)).chat_id = ChatOf(update.key)
          /\ conv[update.key] = FORM_FILLED
          /\ out = <<WelcomePrompt>>
          /\ out[1].buttons = <<"yes_form", "no_form">>
    /\ (handler = "form_check_callback" /\ update.data = "no_form") =>
          /\ out = <<FormLinkPrompt>>
          /\ out[1].buttons = <<"form_completed">>
          /\ conv[update.key] = FORM_FILLED
    /\ (handler = "form_check_callback" /\ update.data = "yes_form") =>
          conv[update.key] = NAME

\* A no_form click was answered at FORM_FILLED.
C10_Witness ==
    /\ handler = "form_check_callback"
    /\ update.data = "no_form"
    /\ conv[update.key] = FORM_FILLED

\* The updates a stage does not accept: free text at FORM_FILLED and
\* GROUP_PROOF, a button click at NAME..EXPERIENCE, a button of another stage.
OffFlow(state, upd) ==
    \/ state \in {FORM_FILLED, GROUP_PROOF} /\ upd.kind = "text"
    \/ state \in NAME..EXPERIENCE /\ upd.kind = "callback"
    \/ state = FORM_FILLED /\ IsCallback(upd, {"group_joined"})
    \/ state = GROUP_PROOF /\ IsCallback(upd, {"yes_form", "no_form", "form_completed"})

\* The handlers never route an update that is off the flow of a stage to a
\* handler of the conversation.
OffFlowRouting ==
    \A state \in Stages, upd \in Updates :
        OffFlow(state, upd) => Dispatch(state, upd) \in {"None", "fallback_text"}

\* C11: an update that the stage of its session does not accept goes to no
\* handler of the conversation, and the step that takes it changes no
\* conversation state and no dict of a user, calls no append_row and ends
\* no handler in an exception.
C11_OffFlowChangesNothing ==
    [][ ( /\ now' = now
          /\ handler' \in {"None", "fallback_text"} )
        => /\ OffFlowRouting
           /\ conv' = conv
           /\ user_data' = user_data
           /\ call' = NoCall
           /\ UNCHANGED <<fate, got, appended, SHEET, proof_msg>>
      ]_vars

\* A button click was dropped at a text stage that had stored a name.
C11_Witness ==
    /\ handler = "None"
    /\ update.kind = "callback"
    /\ conv[update.key] \in POSITION..EXPERIENCE
    /\ "full_name" \in DOMAIN got[update.key]

\* C12: every update that a handler of the conversation takes (start, the
\* three form buttons, the four texts, group_joined, cancel) is answered by
\* exactly one message sent or edited, and an append_row call is made by
\* complete_application on group_joined only.
C12_OneMessagePerTransition ==
    /\ handler \in ConversationHandlers => Len(out) = 1
    /\ call.made =>
          /\ handler = "complete_application"
          /\ update = CallbackUpdate(call.key, "group_joined")

\* Each kind of transition has been answered; here the link after no_form.
C12_Witness ==
    /\ handler = "form_check_callback"
    /\ update.data = "no_form"
    /\ Len(out) = 1
    /\ \E k \in Keys : fate[k] = "done" /\ appended[k] = 1

\* C13: no update of one session changes what another session holds: the
\* collected fields in the record of every open session are the texts that
\* session itself received.
C13_SessionsIsolated ==
    \A k \in Keys :
        Active(k) =>
            \A i \in 1..4 :
                Get(Application(UserOf(k)), Fields[i], "N/A") = Get(got[k], Fields[i], "N/A")

\* form_completed and yes_form go to the same handler at FORM_FILLED, which
\* returns the same state and the same prompt for both.
FormCompletedLikeYes ==
    /\ \A k \in Keys :
          Dispatch(FORM_FILLED, CallbackUpdate(k, "form_completed"))
              = Dispatch(FORM_FILLED, CallbackUpdate(k, "yes_form"))
    /\ FormCheckNext("form_completed") = FormCheckNext("yes_form")
    /\ FormCheckReply("form_completed") = FormCheckReply("yes_form")

\* C14: at FORM_FILLED a form_completed click does what a yes_form click
\* does: either moves the session to NAME, edits the prompt into the name
\* prompt and leaves the user's dict and everything else as it was.
C14_FormCompletedIsYes ==
    [][ ( /\ now' = now
          /\ handler' = "form_check_callback"
          /\ update'.data \in {"yes_form", "form_completed"} )
        => /\ FormCompletedLikeYes
           /\ conv[update'.key] = FORM_FILLED
           /\ conv' = [conv EXCEPT ![update'.key] = NAME]
           /\ out' = <<NamePrompt>>
           /\ user_data' = user_data
           /\ call' = NoCall
           /\ UNCHANGED <<fate, got, appended, SHEET, proof_msg>>
      ]_vars

\* A form_completed click has moved a session to NAME.
C14_Witness ==
    /\ handler = "form_check_callback"
    /\ update.data = "form_completed"
    /\ conv[update.key] = NAME
    /\ out = <<NamePrompt>>

\* C15 (as claimed): a text of white space only at NAME is rejected: the
\* stage stays NAME and full_name is not stored.
C15_BlankNameRejected ==
    (handler = "get_name" /\ IsBlank(update.data)) =>
        /\ conv[update.key] = NAME
        /\ "full_name" \notin DOMAIN Application(UserOf(update.key))

\* Every text that passes filters.TEXT & ~filters.COMMAND goes to get_name at NAME.
NameRouting ==
    \A k \in Keys, t \in Texts : Dispatch(NAME, TextUpdate(k, t)) = "get_name"

\* C15 (amended): at NAME every non-empty text that is no command, one of
\* white space only included, is stored as it is into full_name, is answered
\* by the position prompt and moves the session to POSITION.
C15_NameStoredVerbatim ==
    /\ NameRouting
    /\ handler = "get_name" =>
          /\ conv[update.key] = POSITION
          /\ Application(UserOf(update.key)).full_name = update.data
          /\ out = <<PositionPrompt(update.data)>>

\* A name of white space only was stored.
C15_Witness ==
    /\ handler = "get_name"
    /\ IsBlank(update.data)
    /\ conv[update.key] = POSITION
    /\ Application(UserOf(update.key)).full_name = update.data

\* C16: the notice of fallback_text is sent only for a text that arrives
\* while its key has no conversation; a text in an open conversation at
\* FORM_FILLED or GROUP_PROOF is answered by nothing.
C16_NoticeOnlyWithoutSession ==
    /\ out = <<FlowNotice>> => ~Active(update.key)
    /\ (update.kind = "text" /\ Active(update.key)
            /\ conv[update.key] \in {FORM_FILLED, GROUP_PROOF}
            /\ handler \notin ConversationHandlers) => out = <<>>

FieldSet == {Fields[i] : i \in 1..4}

\* The collected fields a user's dict holds.
Collected(u) == IF HasApplication(u) THEN DOMAIN Application(u) \cap FieldSet ELSE {}

FieldOf(h) ==
    CASE h = "get_name" -> "full_name"
      [] h = "get_position" -> "position"
      [] h = "get_location" -> "location"
      [] h = "get_experience" -> "experience"

TextHandlers == {"get_name", "get_position", "get_location", "get_experience"}

\* C18: a text at NAME, POSITION, LOCATION, EXPERIENCE sets full_name,
\* position, location, experience respectively, to the text, and leaves
\* every other field of the dict as it was; the button handlers and cancel
\* change no dict.
C18_OneFieldPerText ==
    [][ now' = now =>
          /\ handler' \in TextHandlers =>
                LET u == UserOf(update'.key)
                    f == FieldOf(handler')
                    old == Application(u)
                    new == user_data'[u]["application"]
                IN  /\ conv[update'.key] = conv'[update'.key] - 1
                    /\ f = Fields[conv'[update'.key] - 1]
                    /\ DOMAIN new = DOMAIN old \cup {f}
                    /\ new[f] = update'.data
                    /\ \A g \in DOMAIN old \ {f} : new[g] = old[g]
          /\ handler' \in {"form_check_callback", "complete_application", "cancel"} =>
                user_data' = user_data
      ]_vars

\* A location was stored next to a name and a position.
C18_Witness ==
    /\ handler = "get_location"
    /\ DOMAIN Application(UserOf(update.key)) = {"chat_id", "full_name", "position", "location"}

\* C19: the collected fields of an open session are those of the stages it
\* has passed: none at FORM_FILLED and NAME, full_name at POSITION, and so
\* on to all four at GROUP_PROOF.
C19_FieldsByStage ==
    \A k \in Keys :
        Active(k) =>
            Collected(UserOf(k)) = {Fields[i] : i \in 1..(conv[k] - 1)}

\* /start is no entry point of an open conversation and no handler of any
\* of its states; it is the entry point of a key without a conversation.
StartRouting ==
    \A k \in Keys :
        /\ \A state \in Stages : Dispatch(state, CommandUpdate(k, "start")) = "None"
        /\ Dispatch(ConversationHandler_END, CommandUpdate(k, "start")) = "start"

\* C20: a /start in an open conversation is dropped: no stage, no dict and
\* nothing else changes and no message is sent; start runs only for a key
\* without a conversation (never started, DONE or cancelled).
C20_StartNotReentrant ==
    [][ now' = now =>
          /\ StartRouting
          /\ (handler' = "None" /\ update'.kind = "command" /\ Active(update'.key)) =>
                /\ conv' = conv
                /\ user_data' = user_data
                /\ out' = <<>>
                /\ call' = NoCall
                /\ UNCHANGED <<fate, got, appended, SHEET, proof_msg>>
          /\ handler' = "start" =>
                /\ ~Active(update'.key)
                /\ fate[update'.key] \in {"none", "done", "cancelled"}
      ]_vars

\* A /start was dropped in a session that had collected a name.
C20_Witness ==
    /\ handler = "None"
    /\ update.kind = "command"
    /\ Active(update.key)
    /\ "full_name" \in DOMAIN got[update.key]

====
